---------------------------- MODULE Spec2Model ----------------------------
(***************************************************************************)
(* Model of final-project-golang-ai-v4/main.go: CsvToSlice (the CSV to     *)
(* column table transform), AIModelConnector.ConnectAIModel (the inference *)
(* connector) and the part of main that re-joins the parsed CSV file.      *)
(*                                                                         *)
(* Text is a sequence of one-character strings.  The CSV decoding follows  *)
(* encoding/csv's Reader as csv.NewReader configures it (Comma = ',',      *)
(* LazyQuotes = false, TrimLeadingSpace = false, no Comment rune,          *)
(* FieldsPerRecord = 0), over an alphabet without carriage returns.        *)
(***************************************************************************)
EXTENDS Integers, Sequences, FiniteSets, TLC

VARIABLES
    data,      \* CsvToSlice: the argument string
    pcB,       \* CsvToSlice: "call" before the call, "done" after it returned
    result,    \* CsvToSlice: the returned map (column name -> values)
    errB,      \* CsvToSlice: the returned error ("none" for nil)
    file,      \* main: the bytes of data-series.csv
    pcM,       \* main: "open", "read", "joined", "done", "fatal"
    lines,     \* main: the records reader.ReadAll returned
    csvData,   \* main: the re-joined text handed to CsvToSlice
    clientTimeout, \* AIModelConnector.Client.Timeout (0: no timeout)
    payload,   \* ConnectAIModel, per call: the payload argument
    pc,        \* ConnectAIModel, per call: "start", "waiting" (inside
               \* Client.Do), "checkStatus", "decode", "done"
    sent,      \* per call: the requests it handed to Client.Do, in order
    resp,      \* per call: what Client.Do returned (a response or an error)
    decoded,   \* per call: whether the decoder has read resp.Body
    bodyClosed,\* per call: whether resp.Body.Close has run
    returned   \* per call: the (Response, error) pairs it returned

csvVars == <<data, pcB, result, errB, file, pcM, lines, csvData>>
aiVars == <<clientTimeout, payload, pc, sent, resp, decoded, bodyClosed,
            returned>>
vars == <<csvVars, aiVars>>

\* No connector call exists (the specifications of the CSV side).
NoCalls ==
    /\ clientTimeout = 0
    /\ payload = <<>>
    /\ pc = <<>>
    /\ sent = <<>>
    /\ resp = <<>>
    /\ decoded = <<>>
    /\ bodyClosed = <<>>
    /\ returned = <<>>

-----------------------------------------------------------------------------
(* Bounds of the model.                                                    *)
MaxLen == 6        \* longest argument string of CsvToSlice
MaxFileLen == 5    \* longest data-series.csv

(* The alphabet: two letters and the three characters the decoder treats   *)
(* specially.                                                              *)
COMMA == ","
QUOTE == "\""
NL == "\n"
Chars == {"a", "b", COMMA, QUOTE, NL}

TextsOfLen(n) == [1..n -> Chars]

TextsUpTo(n) == UNION {TextsOfLen(k) : k \in 0..n}

-----------------------------------------------------------------------------
(* encoding/csv, as used at main.go:37-40 and main.go:134-136.             *)

\* bytes.IndexByte / bytes.IndexRune: first position of c in s, 0 when absent
IndexOf(s, c) ==
    IF \E i \in 1..Len(s) : s[i] = c
    THEN CHOOSE i \in 1..Len(s) : s[i] = c /\ \A j \in 1..(i - 1) : s[j] # c
    ELSE 0

Drop(s, n) == SubSeq(s, n + 1, Len(s))

lengthNL(line) == IF Len(line) > 0 /\ line[Len(line)] = NL THEN 1 ELSE 0

\* Reader.readLine: the next line with its line feed; the last line of a
\* text may lack one.  An empty line with an empty rest is io.EOF.
readLineAt(rest, i) ==
    IF i = 0 THEN [line |-> rest, rest |-> <<>>]
    ELSE [line |-> SubSeq(rest, 1, i), rest |-> Drop(rest, i)]

readLine(rest) == readLineAt(rest, IndexOf(rest, NL))

RECURSIVE parseQuoted(_, _, _)

\* Reader.readRecord, quoted field, after a quote was hit: after is the text
\* behind that quote, buf the field so far.  more: a comma ended the field.
afterQuote(after, rest, buf) ==
    IF Len(after) > 0 /\ after[1] = QUOTE
        THEN parseQuoted(Tail(after), rest, Append(buf, QUOTE))
    ELSE IF Len(after) > 0 /\ after[1] = COMMA
        THEN [err |-> "none", field |-> buf, line |-> Tail(after),
              rest |-> rest, more |-> TRUE]
    ELSE IF lengthNL(after) = Len(after)
        THEN [err |-> "none", field |-> buf, line |-> <<>>,
              rest |-> rest, more |-> FALSE]
    ELSE [err |-> "ErrQuote", field |-> buf, line |-> after,
          rest |-> rest, more |-> FALSE]

\* Reader.readRecord, quoted field, end of line hit: go on with line nxt
quotedNextLine(nxt, buf) == parseQuoted(nxt.line, nxt.rest, buf)

\* Reader.readRecord, quoted field: i is the position of the next quote
parseQuotedAt(line, rest, buf, i) ==
    IF i > 0
        THEN afterQuote(Drop(line, i), rest, buf \o SubSeq(line, 1, i - 1))
    ELSE IF Len(line) > 0
        THEN quotedNextLine(readLine(rest), buf \o line)
    ELSE [err |-> "ErrQuote", field |-> buf, line |-> line,
          rest |-> rest, more |-> FALSE]

\* The quoted-field loop of Reader.readRecord: line is the text after the
\* opening quote, buf the field so far.
parseQuoted(line, rest, buf) ==
    parseQuotedAt(line, rest, buf, IndexOf(line, QUOTE))

RECURSIVE parseField(_, _, _)

\* Reader.readRecord, non-quoted field: i is the position of the next comma
bareFieldEnd(line, rest, fields, i, field) ==
    IF IndexOf(field, QUOTE) > 0
        THEN [err |-> "ErrBareQuote", rec |-> fields, rest |-> rest]
    ELSE IF i > 0
        THEN parseField(Drop(line, i), rest, Append(fields, field))
    ELSE [err |-> "none", rec |-> Append(fields, field), rest |-> rest]

bareField(line, rest, fields, i) ==
    bareFieldEnd(line, rest, fields, i,
                 IF i > 0 THEN SubSeq(line, 1, i - 1)
                 ELSE SubSeq(line, 1, Len(line) - lengthNL(line)))

\* Reader.readRecord, quoted field: q is what the quoted-field loop returned
quotedFieldEnd(q, fields) ==
    IF q.err # "none"
        THEN [err |-> q.err, rec |-> fields, rest |-> q.rest]
    ELSE IF q.more
        THEN parseField(q.line, q.rest, Append(fields, q.field))
    ELSE [err |-> "none", rec |-> Append(fields, q.field), rest |-> q.rest]

\* The parseField loop of Reader.readRecord.
parseField(line, rest, fields) ==
    IF Len(line) = 0 \/ line[1] # QUOTE
        THEN bareField(line, rest, fields, IndexOf(line, COMMA))
    ELSE quotedFieldEnd(parseQuoted(Tail(line), rest, <<>>), fields)

RECURSIVE readRecord(_)

recordOf(p) == [eof |-> FALSE, err |-> p.err, rec |-> p.rec, rest |-> p.rest]

\* Reader.readRecord: l is the line read; empty lines are skipped.
readRecordLine(l) ==
    IF Len(l.line) = 0
        THEN [eof |-> TRUE, err |-> "none", rec |-> <<>>, rest |-> <<>>]
    ELSE IF Len(l.line) = lengthNL(l.line)
        THEN readRecord(l.rest)
    ELSE recordOf(parseField(l.line, l.rest, <<>>))

readRecord(rest) == readRecordLine(readLine(rest))

RECURSIVE readAllFrom(_, _, _)

\* Reader.ReadAll, one turn of its loop: r is what readRecord returned.
\* FieldsPerRecord fpr: 0 takes the first record's length as the required
\* length, a negative value checks nothing.
readAllStep(r, recs, fpr) ==
    IF r.eof THEN [err |-> "none", lines |-> recs]
    ELSE IF r.err # "none" THEN [err |-> r.err, lines |-> <<>>]
    ELSE IF fpr > 0 /\ Len(r.rec) # fpr
        THEN [err |-> "ErrFieldCount", lines |-> <<>>]
    ELSE readAllFrom(r.rest, Append(recs, r.rec),
                     IF fpr = 0 THEN Len(r.rec) ELSE fpr)

readAllFrom(rest, recs, fpr) == readAllStep(readRecord(rest), recs, fpr)

\* The same decoding with the field-count check switched off.
ReadAllLoose(text) == readAllFrom(text, <<>>, -1)

\* csv.NewReader leaves FieldsPerRecord at 0; ReadAll reads to the end.
ReadAll(text) == readAllFrom(text, <<>>, 0)

-----------------------------------------------------------------------------
(* CsvToSlice, main.go:35-69.                                              *)

Range(s) == {s[i] : i \in 1..Len(s)}

EmptyTable == [h \in {} |-> <<>>]

\* main.go:54-57: every header starts with an empty slice
InitColumnsNone(headers) == EmptyTable
InitColumns(headers) == [h \in Range(headers) |-> <<>>]

\* main.go:63: append value to the column named by header i.  A position
\* past the last header is an index-out-of-range panic.
\* (a Go map read of a missing key yields nil, a write creates the key)
MapGet(res, h) == IF h \in DOMAIN res THEN res[h] ELSE <<>>

AppendValue(res, headers, i, value) ==
    [k \in DOMAIN res \cup {headers[i]} |->
        IF k = headers[i] THEN Append(MapGet(res, k), value) ELSE res[k]]

\* main.go:61-64: the inner loop over one data row
RECURSIVE AppendRow(_, _, _, _)
AppendRow(st, headers, line, i) ==
    IF i > Len(line) \/ st.err # "none" THEN st
    ELSE IF i > Len(headers)
        THEN [err |-> "panic", table |-> st.table]
    ELSE AppendRow([err |-> "none",
                    table |-> AppendValue(st.table, headers, i, line[i])],
                   headers, line, i + 1)

\* main.go:60-65: the loop over lines[1:]
RECURSIVE AppendRows(_, _, _, _)
AppendRows(st, headers, recs, k) ==
    IF k > Len(recs) \/ st.err # "none" THEN st
    ELSE AppendRows(AppendRow(st, headers, recs[k], 1), headers, recs, k + 1)

\* main.go:46-68: the transform of the parsed records
BuildTable(recs) ==
    IF Len(recs) = 0 THEN [err |-> "none", table |-> EmptyTable]
    ELSE AppendRows([err |-> "none", table |-> InitColumns(recs[1])],
                    recs[1], recs, 2)

\* main.go:40-43, then the transform: r is what ReadAll returned
CsvToSliceOf(r) ==
    IF r.err # "none" THEN [err |-> r.err, table |-> EmptyTable]
    ELSE BuildTable(r.lines)

CsvToSlice(text) == CsvToSliceOf(ReadAll(text))

-----------------------------------------------------------------------------
(* The specification of one CsvToSlice call on an arbitrary string.        *)

InitBuild ==
    /\ data \in TextsUpTo(MaxLen)
    /\ pcB = "call"
    /\ result = EmptyTable
    /\ errB = "none"
    /\ file = <<>>
    /\ pcM = "idle"
    /\ lines = <<>>
    /\ csvData = <<>>
    /\ NoCalls

\* the caller receives (map, error)
Returned(r) ==
    /\ result' = r.table
    /\ errB' = r.err

Build ==
    /\ pcB = "call"
    /\ pcM = "idle"
    /\ Returned(CsvToSlice(data))
    /\ pcB' = "done"
    /\ UNCHANGED <<data, file, pcM, lines, csvData>>
    /\ UNCHANGED aiVars

NextBuild == Build

SpecBuild == InitBuild /\ [][NextBuild]_vars

-----------------------------------------------------------------------------
(* main, main.go:123-156: read the file, re-join the records, convert.     *)

\* strings.Join(line, ",")
RECURSIVE Join(_)
Join(fields) ==
    IF Len(fields) = 0 THEN <<>>
    ELSE IF Len(fields) = 1 THEN fields[1]
    ELSE fields[1] \o <<COMMA>> \o Join(Tail(fields))

\* main.go:143-150: every record joined by commas, each followed by "\n"
RECURSIVE JoinAll(_)
JoinAll(recs) ==
    IF Len(recs) = 0 THEN <<>>
    ELSE Join(recs[1]) \o <<NL>> \o JoinAll(Tail(recs))

InitMain ==
    /\ file \in TextsUpTo(MaxFileLen)
    /\ pcM = "open"
    /\ lines = <<>>
    /\ csvData = <<>>
    /\ data = <<>>
    /\ pcB = "idle"
    /\ result = EmptyTable
    /\ errB = "none"
    /\ NoCalls

\* main.go:134-140
FileRead(r) ==
    /\ lines' = r.lines
    /\ pcM' = IF r.err = "none" THEN "read" ELSE "fatal"

ReadFile ==
    /\ pcM = "open"
    /\ FileRead(ReadAll(file))
    /\ UNCHANGED <<data, pcB, result, errB, file, csvData>>
    /\ UNCHANGED aiVars

\* main.go:143-150
JoinLines ==
    /\ pcM = "read"
    /\ csvData' = JoinAll(lines)
    /\ pcM' = "joined"
    /\ UNCHANGED <<data, pcB, result, errB, file, lines>>
    /\ UNCHANGED aiVars

\* main.go:152-156
Convert ==
    /\ pcM = "joined"
    /\ data' = csvData
    /\ Returned(CsvToSlice(csvData))
    /\ pcM' = IF errB' = "none" THEN "done" ELSE "fatal"
    /\ pcB' = "done"
    /\ UNCHANGED <<file, lines, csvData>>
    /\ UNCHANGED aiVars

NextMain == ReadFile \/ JoinLines \/ Convert

SpecMain == InitMain /\ [][NextMain]_vars

-----------------------------------------------------------------------------
(* AIModelConnector.ConnectAIModel, main.go:71-121.                        *)

Calls == {"c1", "c2"}

\* the token argument of each call; an empty token is sent as it is
token == [p \in Calls |-> IF p = "c1" THEN "" ELSE "hf_token"]

\* Client.Timeout: zero means no timeout
TimeoutChoices == {0, 30}

StatusOK == 200
Statuses == {200, 201, 500}
TransportCauses == {"refused", "dns"}

\* JSON values, and bytes that are no JSON at all
JStr(v) == [kind |-> "string", str |-> v]
JNum(n) == [kind |-> "number", num |-> n]
JArr(xs) == [kind |-> "array", elems |-> xs]
JObj(f) == [kind |-> "object", fields |-> f]
JNull == [kind |-> "null"]
Malformed == [kind |-> "malformed"]

\* the table CsvToSlice gives for "a,b\nb,a"
SampleTable == CsvToSlice(<<"a", COMMA, "b", NL, "b", COMMA, "a">>).table

\* main.go:23-26: an Inputs value, and a payload of another dynamic type
Payloads ==
    {[type |-> "Inputs", Table |-> SampleTable, Query |-> "average age"],
     [type |-> "string", value |-> "average age"]}

\* main.go:28-33: the zero Response
ZeroResponse ==
    [Answer |-> "", Coordinates |-> <<>>, Cells |-> <<>>, Aggregator |-> ""]

\* what a backend may put into the fields of its answer
SampleAnswer == "27.5"
SampleCoordinates == <<<<1, 1>>, <<2, 1>>>>
SampleCells == <<"30", "25">>
SampleAggregator == "AVERAGE"

Keys == {"answer", "coordinates", "cells", "aggregator"}

FieldChoices(k) ==
    CASE k = "answer" -> {JStr(SampleAnswer), JNum(27)}
      [] k = "coordinates" ->
            {JArr(<<JArr(<<JNum(1), JNum(1)>>), JArr(<<JNum(2), JNum(1)>>)>>)}
      [] k = "cells" -> {JArr(<<JStr("30"), JStr("25")>>)}
      [] k = "aggregator" -> {JStr(SampleAggregator)}

AllChoices == UNION {FieldChoices(k) : k \in Keys}

ObjectsOver(K) == {f \in [K -> AllChoices] : \A k \in K : f[k] \in FieldChoices(k)}

Bodies ==
    {Malformed, JNull, JArr(<<>>)}
        \cup {JObj(f) : f \in UNION {ObjectsOver(K) : K \in SUBSET Keys}}

NoResp == [kind |-> "none"]

\* errors ConnectAIModel returns (nil among them)
ErrNil == [kind |-> "nil"]
ErrInvalidPayload == [kind |-> "invalid payload type"]
ErrTransport(cause) == [kind |-> "transport", cause |-> cause]
ErrStatus(status) == [kind |-> "failed to connect to AI model with status",
                      status |-> status]
ErrDecode == [kind |-> "decode"]

\* main.go:80 with the tags of main.go:23-26: json.Marshal(inputs)
Marshal(inputs) ==
    JObj([k \in {"table", "query"} |->
            IF k = "table"
            THEN JObj([h \in DOMAIN inputs.Table |->
                          JArr([i \in 1..Len(inputs.Table[h]) |->
                                   JStr(inputs.Table[h][i])])])
            ELSE JStr(inputs.Query)])

\* main.go:87-96
NewRequest(body, tok) ==
    [method |-> "POST",
     url |-> "https://api-inference.huggingface.co/models/openai-community/gpt2",
     authorization |-> <<"Bearer ", tok>>,
     contentType |-> "application/json",
     body |-> body]

\* encoding/json into the fields of Response (main.go:28-33): a key that is
\* absent or null leaves the field as it is, a value of another JSON type
\* is an UnmarshalTypeError
IsString(j) == j.kind = "string"
IsStrings(j) ==
    /\ j.kind = "array"
    /\ \A i \in 1..Len(j.elems) : j.elems[i].kind = "string"
IsIntRow(j) ==
    /\ j.kind = "array"
    /\ \A i \in 1..Len(j.elems) : j.elems[i].kind = "number"
IsIntMatrix(j) ==
    /\ j.kind = "array"
    /\ \A i \in 1..Len(j.elems) : IsIntRow(j.elems[i])

Present(f, k) == k \in DOMAIN f /\ f[k].kind # "null"

StringsOf(j) == [i \in 1..Len(j.elems) |-> j.elems[i].str]
IntRowOf(j) == [i \in 1..Len(j.elems) |-> j.elems[i].num]
IntMatrixOf(j) == [i \in 1..Len(j.elems) |-> IntRowOf(j.elems[i])]

FieldsTypeOK(f) ==
    /\ Present(f, "answer") => IsString(f["answer"])
    /\ Present(f, "coordinates") => IsIntMatrix(f["coordinates"])
    /\ Present(f, "cells") => IsStrings(f["cells"])
    /\ Present(f, "aggregator") => IsString(f["aggregator"])

DecodeObject(f) ==
    [Answer |->
        IF Present(f, "answer") THEN f["answer"].str
        ELSE ZeroResponse.Answer,
     Coordinates |->
        IF Present(f, "coordinates") THEN IntMatrixOf(f["coordinates"])
        ELSE ZeroResponse.Coordinates,
     Cells |->
        IF Present(f, "cells") THEN StringsOf(f["cells"])
        ELSE ZeroResponse.Cells,
     Aggregator |->
        IF Present(f, "aggregator") THEN f["aggregator"].str
        ELSE ZeroResponse.Aggregator]

\* a decoder that insists on every field (not what encoding/json does)
DecodeRequireAll(body) ==
    IF body.kind = "object" /\ DOMAIN body.fields = Keys
           /\ FieldsTypeOK(body.fields)
        THEN [ok |-> TRUE, value |-> DecodeObject(body.fields)]
    ELSE [ok |-> FALSE, value |-> ZeroResponse]

\* main.go:113-114: json.NewDecoder(resp.Body).Decode(&result), result
\* starting as the zero Response
Decode(body) ==
    IF body.kind = "null" THEN [ok |-> TRUE, value |-> ZeroResponse]
    ELSE IF body.kind = "object" /\ FieldsTypeOK(body.fields)
        THEN [ok |-> TRUE, value |-> DecodeObject(body.fields)]
    ELSE [ok |-> FALSE, value |-> ZeroResponse]

\* a return statement of call p
Return(p, response, err) ==
    /\ returned' = [returned EXCEPT
                       ![p] = Append(@, [resp |-> response, err |-> err])]
    /\ pc' = [pc EXCEPT ![p] = "done"]

InitInfer ==
    /\ clientTimeout \in TimeoutChoices
    /\ payload \in [Calls -> Payloads]
    /\ pc = [p \in Calls |-> "start"]
    /\ sent = [p \in Calls |-> <<>>]
    /\ resp = [p \in Calls |-> NoResp]
    /\ decoded = [p \in Calls |-> FALSE]
    /\ bodyClosed = [p \in Calls |-> FALSE]
    /\ returned = [p \in Calls |-> <<>>]
    /\ data = <<>>
    /\ pcB = "idle"
    /\ result = EmptyTable
    /\ errB = "none"
    /\ file = <<>>
    /\ pcM = "idle"
    /\ lines = <<>>
    /\ csvData = <<>>

\* main.go:73-77: the payload is no Inputs value
RejectPayload(p) ==
    /\ pc[p] = "start"
    /\ payload[p].type # "Inputs"
    /\ Return(p, ZeroResponse, ErrInvalidPayload)
    /\ UNCHANGED <<clientTimeout, payload, sent, resp, decoded, bodyClosed>>
    /\ UNCHANGED csvVars

\* main.go:73-99: marshal (json.Marshal cannot fail on a map of string
\* slices and a string, http.NewRequest cannot fail on this method and
\* URL), build the request and enter Client.Do
Dispatch(p) ==
    /\ pc[p] = "start"
    /\ payload[p].type = "Inputs"
    /\ sent' = [sent EXCEPT
                   ![p] = Append(@, NewRequest(Marshal(payload[p]), token[p]))]
    /\ pc' = [pc EXCEPT ![p] = "waiting"]
    /\ UNCHANGED <<clientTimeout, payload, resp, decoded, bodyClosed,
                   returned>>
    /\ UNCHANGED csvVars

\* main.go:99: Client.Do returns a response
DoResponds(p, status, body) ==
    /\ pc[p] = "waiting"
    /\ resp' = [resp EXCEPT
                   ![p] = [kind |-> "response", status |-> status,
                           body |-> body]]
    /\ pc' = [pc EXCEPT ![p] = "checkStatus"]
    /\ UNCHANGED <<clientTimeout, payload, sent, decoded, bodyClosed,
                   returned>>
    /\ UNCHANGED csvVars

\* a connector that sends the request again when Client.Do fails
DoFailsRetry(p, cause) ==
    /\ pc[p] = "waiting"
    /\ sent' = [sent EXCEPT ![p] = Append(@, sent[p][1])]
    /\ UNCHANGED <<clientTimeout, payload, pc, resp, decoded, bodyClosed,
                   returned>>
    /\ UNCHANGED csvVars

\* main.go:99-103: Client.Do returns an error
DoFails(p, cause) ==
    /\ pc[p] = "waiting"
    /\ resp' = [resp EXCEPT ![p] = [kind |-> "error", cause |-> cause]]
    /\ Return(p, ZeroResponse, ErrTransport(cause))
    /\ UNCHANGED <<clientTimeout, payload, sent, decoded, bodyClosed>>
    /\ UNCHANGED csvVars

\* main.go:99-103: Client.Timeout, when it is not zero, ends Client.Do
DoTimesOut(p) ==
    /\ pc[p] = "waiting"
    /\ clientTimeout > 0
    /\ resp' = [resp EXCEPT ![p] = [kind |-> "error", cause |-> "timeout"]]
    /\ Return(p, ZeroResponse, ErrTransport("timeout"))
    /\ UNCHANGED <<clientTimeout, payload, sent, decoded, bodyClosed>>
    /\ UNCHANGED csvVars

\* a status check that lets every 2xx status pass
CheckStatusAny2xx(p) ==
    /\ pc[p] = "checkStatus"
    /\ IF resp[p].status >= 300
       THEN /\ Return(p, ZeroResponse, ErrStatus(resp[p].status))
            /\ bodyClosed' = [bodyClosed EXCEPT ![p] = TRUE]
       ELSE /\ pc' = [pc EXCEPT ![p] = "decode"]
            /\ UNCHANGED <<bodyClosed, returned>>
    /\ UNCHANGED <<clientTimeout, payload, sent, resp, decoded>>
    /\ UNCHANGED csvVars

\* main.go:105-110: the status check (the deferred Close runs on return)
CheckStatus(p) ==
    /\ pc[p] = "checkStatus"
    /\ IF resp[p].status # StatusOK
       THEN /\ Return(p, ZeroResponse, ErrStatus(resp[p].status))
            /\ bodyClosed' = [bodyClosed EXCEPT ![p] = TRUE]
       ELSE /\ pc' = [pc EXCEPT ![p] = "decode"]
            /\ UNCHANGED <<bodyClosed, returned>>
    /\ UNCHANGED <<clientTimeout, payload, sent, resp, decoded>>
    /\ UNCHANGED csvVars

\* main.go:114-120: d is what the decoder gave
DecodeAndReturn(p, d) ==
    IF d.ok THEN Return(p, d.value, ErrNil)
    ELSE Return(p, ZeroResponse, ErrDecode)

\* a connector that keeps the response in a field all calls share
DecodeBodyShared(p) ==
    /\ pc[p] = "decode"
    /\ decoded' = [decoded EXCEPT ![p] = TRUE]
    /\ \E q \in Calls :
        /\ resp[q].kind = "response"
        /\ DecodeAndReturn(p, Decode(resp[q].body))
    /\ bodyClosed' = [bodyClosed EXCEPT ![p] = TRUE]
    /\ UNCHANGED <<clientTimeout, payload, sent, resp>>
    /\ UNCHANGED csvVars

\* main.go:112-120: decode the body and return
DecodeBody(p) ==
    /\ pc[p] = "decode"
    /\ decoded' = [decoded EXCEPT ![p] = TRUE]
    /\ DecodeAndReturn(p, Decode(resp[p].body))
    /\ bodyClosed' = [bodyClosed EXCEPT ![p] = TRUE]
    /\ UNCHANGED <<clientTimeout, payload, sent, resp>>
    /\ UNCHANGED csvVars

Next ==
    \E p \in Calls :
        \/ RejectPayload(p)
        \/ Dispatch(p)
        \/ \E status \in Statuses, body \in Bodies : DoResponds(p, status, body)
        \/ \E cause \in TransportCauses : DoFails(p, cause)
        \/ DoTimesOut(p)
        \/ CheckStatus(p)
        \/ DecodeBody(p)

Spec == InitInfer /\ [][Next]_vars

\* The connector's own steps are taken when they can be, and a Client
\* timeout that is set fires; whether the backend ever answers or the
\* connection ever fails is up to the network.
FairSpec ==
    /\ Spec
    /\ \A p \in Calls :
        /\ WF_vars(RejectPayload(p))
        /\ WF_vars(Dispatch(p))
        /\ WF_vars(DoTimesOut(p))
        /\ WF_vars(CheckStatus(p))
        /\ WF_vars(DecodeBody(p))

-----------------------------------------------------------------------------
(* What the claims about CsvToSlice speak of.                              *)

\* the records of the argument, decoded without the field-count check
LooseLines == ReadAllLoose(data).lines
DecodesLoose == ReadAllLoose(data).err = "none"

\* a header row and at least one data row whose length differs from it
Ragged ==
    /\ DecodesLoose
    /\ \E k \in 2..Len(LooseLines) : Len(LooseLines[k]) # Len(LooseLines[1])

\* a header row and nothing else
HeaderOnly == DecodesLoose /\ Len(LooseLines) = 1

Min(a, b) == IF a < b THEN a ELSE b

\* the values of row at the positions i, from i on, that have a header
\* named h and a value
RECURSIVE RowValues(_, _, _, _)
RowValues(headers, row, h, i) ==
    IF i > Min(Len(headers), Len(row)) THEN <<>>
    ELSE (IF headers[i] = h THEN <<row[i]>> ELSE <<>>)
         \o RowValues(headers, row, h, i + 1)

\* the values of the data rows from row k on that belong to column h
RECURSIVE ColumnValues(_, _, _)
ColumnValues(recs, h, k) ==
    IF k > Len(recs) THEN <<>>
    ELSE RowValues(recs[1], recs[k], h, 1) \o ColumnValues(recs, h, k + 1)

PositionalTable(recs) ==
    [h \in Range(recs[1]) |-> ColumnValues(recs, h, 2)]

\* the last position of the header row that bears the name h
LastPos(headers, h) ==
    CHOOSE i \in 1..Len(headers) :
        /\ headers[i] = h
        /\ \A j \in (i + 1)..Len(headers) : headers[j] # h

Repeated(headers, h) ==
    Cardinality({i \in 1..Len(headers) : headers[i] = h}) >= 2

-----------------------------------------------------------------------------
(* C1: for every accepted text with a header row and N data rows, every    *)
(* column of the returned table holds exactly N values, also when header   *)
(* names repeat or are empty.                                              *)
C1_EveryColumnHasNValues ==
    (pcB = "done" /\ errB = "none" /\ DecodesLoose /\ Len(LooseLines) >= 1)
        => \A h \in DOMAIN result : Len(result[h]) = Len(LooseLines) - 1

(* C2, as stated: the empty string and a header-only text both yield,      *)
(* without error, a table with no columns.                                 *)
C2_HeaderOnlyYieldsNoColumns ==
    (pcB = "done" /\ (data = <<>> \/ HeaderOnly))
        => (errB = "none" /\ DOMAIN result = {})

(* C2, amended: the empty string yields, without error, a table with no    *)
(* columns; a header-only text yields, without error, one column for every *)
(* distinct header name, each with an empty value sequence.                *)
C2_HeaderOnlyYieldsEmptyColumns ==
    pcB = "done" =>
        /\ data = <<>> => (errB = "none" /\ DOMAIN result = {})
        /\ HeaderOnly =>
            /\ errB = "none"
            /\ DOMAIN result = Range(LooseLines[1])
            /\ \A h \in DOMAIN result : result[h] = <<>>

C2_Witness ==
    /\ pcB = "done"
    /\ HeaderOnly
    /\ Cardinality(DOMAIN result) = 2

(* C7, as stated: a data row whose length differs from the header's does   *)
(* not make build fail; the values at the positions that have both a       *)
(* header and a value are appended to the column of that header, the rest  *)
(* is discarded or left unfilled.                                          *)
C7_RaggedRowsAccepted ==
    (pcB = "done" /\ Ragged)
        => (errB = "none" /\ result = PositionalTable(LooseLines))

(* C7, amended: build fails with the decoder's field-count error whenever  *)
(* a data row's length differs from the header's; on every text it accepts *)
(* each data row has exactly as many values as there are headers, and the  *)
(* value at each position i of each row is appended to the column named by *)
(* header i.                                                               *)
C7_RaggedRowsRejected ==
    pcB = "done" =>
        /\ Ragged => errB = "ErrFieldCount"
        /\ (errB = "none" /\ Len(LooseLines) >= 1) =>
            /\ \A k \in 2..Len(LooseLines) :
                   Len(LooseLines[k]) = Len(LooseLines[1])
            /\ result = PositionalTable(LooseLines)

C7_Witness ==
    /\ pcB = "done"
    /\ Ragged
    /\ errB = "ErrFieldCount"
    /\ \E k \in 2..Len(LooseLines) : Len(LooseLines[k]) > Len(LooseLines[1])

(* C8: when a header name stands at two or more positions, its single      *)
(* column holds, for every data row, only the value at the last position   *)
(* bearing that name.                                                      *)
C8_DuplicateHeaderLastWins ==
    (pcB = "done" /\ errB = "none" /\ DecodesLoose /\ Len(LooseLines) >= 1)
        => \A h \in Range(LooseLines[1]) :
               Repeated(LooseLines[1], h) =>
                   /\ h \in DOMAIN result
                   /\ result[h] =
                          [k \in 1..(Len(LooseLines) - 1) |->
                              LooseLines[k + 1][LastPos(LooseLines[1], h)]]

(* C10: whenever the records of the file parse, re-joining them and        *)
(* converting the text succeeds and yields the table that the transform    *)
(* gives on the parsed records themselves.                                 *)
C10_RejoinRoundTrip ==
    (pcM \in {"done", "fatal"} /\ ReadAll(file).err = "none")
        => (pcM = "done" /\ result = BuildTable(lines).table)

-----------------------------------------------------------------------------
(* What the claims about ConnectAIModel speak of.                          *)

Responded(p) == resp[p].kind = "response"

\* a JSON object whose present fields all have the shape Response expects
WellFormedBody(body) ==
    /\ body.kind = "object"
    /\ "answer" \in DOMAIN body.fields =>
           body.fields["answer"] = JStr(SampleAnswer)
    /\ "coordinates" \in DOMAIN body.fields =>
           body.fields["coordinates"] \in FieldChoices("coordinates")
    /\ "cells" \in DOMAIN body.fields =>
           body.fields["cells"] \in FieldChoices("cells")
    /\ "aggregator" \in DOMAIN body.fields =>
           body.fields["aggregator"] = JStr(SampleAggregator)

\* the value a field of the Response must have for the object f
FieldAsSent(f, k, sample, zero) == IF k \in DOMAIN f THEN sample ELSE zero

\* what call p must return, given its own payload and what Client.Do
\* returned to it
OwnReturn(p) ==
    IF payload[p].type # "Inputs"
        THEN [resp |-> ZeroResponse, err |-> ErrInvalidPayload]
    ELSE IF resp[p].kind = "error"
        THEN [resp |-> ZeroResponse, err |-> ErrTransport(resp[p].cause)]
    ELSE IF resp[p].status # 200
        THEN [resp |-> ZeroResponse, err |-> ErrStatus(resp[p].status)]
    ELSE IF Decode(resp[p].body).ok
        THEN [resp |-> Decode(resp[p].body).value, err |-> ErrNil]
    ELSE [resp |-> ZeroResponse, err |-> ErrDecode]

(* C3: whenever the transport returns a response whose status is not 200,  *)
(* the call returns the status error carrying exactly that status, and the *)
(* body is never decoded, whatever it contains.                            *)
C3_NonSuccessStatusIsBackendError ==
    \A p \in Calls :
        (Responded(p) /\ resp[p].status # 200) =>
            /\ ~decoded[p]
            /\ pc[p] # "decode"
            /\ pc[p] = "done" =>
                   returned[p] = <<[resp |-> ZeroResponse,
                                    err |-> ErrStatus(resp[p].status)]>>

C3_Witness ==
    \E p \in Calls :
        /\ pc[p] = "done"
        /\ Responded(p)
        /\ resp[p].status = 201
        /\ WellFormedBody(resp[p].body)
        /\ DOMAIN resp[p].body.fields = Keys

(* C4: every call that reaches the dispatch step eventually returns, for   *)
(* every Client the caller can supply.                                     *)
C4_DispatchedCallReturns ==
    \A p \in Calls : (pc[p] = "waiting") ~> (pc[p] = "done")

(* C5: a call hands at most one request to the transport: none when the    *)
(* payload is no Inputs value (it returns the invalid-payload error),      *)
(* exactly one otherwise, never a second one after a failure; and it       *)
(* returns exactly once.                                                   *)
C5_AtMostOneDispatch ==
    \A p \in Calls :
        /\ Len(sent[p]) <= 1
        /\ Len(returned[p]) = (IF pc[p] = "done" THEN 1 ELSE 0)
        /\ pc[p] = "done" =>
            /\ payload[p].type # "Inputs" =>
                   /\ Len(sent[p]) = 0
                   /\ returned[p][1].err = ErrInvalidPayload
            /\ payload[p].type = "Inputs" => Len(sent[p]) = 1

C5_Witness ==
    \E p, q \in Calls :
        /\ pc[p] = "done" /\ resp[p].kind = "error" /\ Len(sent[p]) = 1
        /\ pc[q] = "done" /\ payload[q].type # "Inputs" /\ Len(sent[q]) = 0

(* C6: a 200 response with a well-formed body that omits any subset of the *)
(* four fields makes the call return a Response and no error; each omitted *)
(* field has its zero value, each present field the value sent.            *)
C6_OmittedFieldsDefault ==
    \A p \in Calls :
        (pc[p] = "done" /\ Responded(p) /\ resp[p].status = 200
             /\ WellFormedBody(resp[p].body)) =>
            /\ Len(returned[p]) = 1
            /\ returned[p][1].err = ErrNil
            /\ returned[p][1].resp =
                   [Answer |-> FieldAsSent(resp[p].body.fields, "answer",
                                           SampleAnswer, ""),
                    Coordinates |-> FieldAsSent(resp[p].body.fields,
                                       "coordinates", SampleCoordinates, <<>>),
                    Cells |-> FieldAsSent(resp[p].body.fields, "cells",
                                          SampleCells, <<>>),
                    Aggregator |-> FieldAsSent(resp[p].body.fields,
                                       "aggregator", SampleAggregator, "")]

C6_Witness ==
    \E p \in Calls :
        /\ pc[p] = "done" /\ Responded(p) /\ resp[p].status = 200
        /\ WellFormedBody(resp[p].body)
        /\ DOMAIN resp[p].body.fields = Keys \ {"aggregator"}
        /\ returned[p][1].err = ErrNil
        /\ returned[p][1].resp.Aggregator = ""
        /\ returned[p][1].resp.Cells = SampleCells

(* C9: with calls running in parallel on one connector, every request a    *)
(* call sends is built from its own payload and token, and what it returns *)
(* is determined by its own payload and the transport's reply to it.       *)
C9_OutcomeIsOwn ==
    \A p \in Calls :
        /\ \A i \in 1..Len(sent[p]) :
               sent[p][i] = NewRequest(Marshal(payload[p]), token[p])
        /\ pc[p] = "done" => returned[p] = <<OwnReturn(p)>>

C9_Witness ==
    /\ \A p \in Calls : pc[p] = "done" /\ Responded(p)
    /\ returned["c1"][1].err = ErrNil
    /\ returned["c2"][1].err = ErrDecode

=============================================================================
